---------------------------- MODULE Spec2Model ----------------------------
(***************************************************************************)
(* Model of the request boundary of claude-code-proxy:                     *)
(*   src/core/config.py   Config (environment -> configuration)            *)
(*   src/api/endpoints.py module-level clients, validate_api_key,          *)
(*                        create_message, count_tokens, test_connection    *)
(*   src/main.py          --help text, log level parsing                   *)
(*                                                                         *)
(* Text is modelled as a sequence of one-character strings wherever the    *)
(* code looks inside it (header values, numerals), and as an atomic string *)
(* where the code only compares or passes it on.  An optional value        *)
(* (Python None or a value) is a sequence of length 0 or 1.                *)
(***************************************************************************)
EXTENDS Integers, Sequences, FiniteSets, TLC

VARIABLES
    env,        \* os.environ at process start: variable name -> optional text
    config,     \* src.core.config.config: NotLoaded, Exited, or the Config fields
    clients,    \* endpoints.py module globals openai_client / small_model_client
    auth,       \* one pass of validate_api_key: its headers and its outcome
    task,       \* per inbound request: the position and locals of its handler
    backend,    \* calls the handlers have issued to the backend clients
    cancels     \* cancellations the stream translators have issued

vars == <<env, config, clients, auth, task, backend, cancels>>

-----------------------------------------------------------------------------
(* Optional values and text                                                *)

None == <<>>

Some(v) == <<v>>

IsSet(o) == o # None

Val(o) == o[1]

\* Python truthiness of Optional[str]: None and "" are falsy.  Truthy is for
\* text kept as a character sequence, TruthyStr for text kept atomic.
Truthy(o) == IsSet(o) /\ Val(o) # <<>>

TruthyStr(o) == IsSet(o) /\ Val(o) # ""

Digits == {"0", "1", "2", "3", "4", "5", "6", "7", "8", "9"}

DigitVal(c) ==
    CASE c = "0" -> 0 [] c = "1" -> 1 [] c = "2" -> 2 [] c = "3" -> 3
      [] c = "4" -> 4 [] c = "5" -> 5 [] c = "6" -> 6 [] c = "7" -> 7
      [] c = "8" -> 8 [] c = "9" -> 9

\* int(s) accepts a non-empty run of decimal digits (signs and blanks are
\* not among the inputs drawn here); anything else raises ValueError.
IsNumeral(s) == Len(s) > 0 /\ \A i \in 1..Len(s) : s[i] \in Digits

RECURSIVE ParseInt(_)
ParseInt(s) ==
    IF Len(s) = 0 THEN 0
    ELSE 10 * ParseInt(SubSeq(s, 1, Len(s) - 1)) + DigitVal(s[Len(s)])


-----------------------------------------------------------------------------
(* src/core/config.py: Config.__init__                                     *)
(* BIG_MODEL_EXTRA_BODY, SMALL_MODEL_EXTRA_BODY, AZURE_API_VERSION and     *)
(* MAX_RETRIES are read too; no handler of endpoints.py branches on them   *)
(* and --help documents no default for them, so they are left unset.       *)

EnvNames ==
    {"OPENAI_API_KEY", "ANTHROPIC_API_KEY", "OPENAI_BASE_URL",
     "SMALL_MODEL_BASE_URL", "SMALL_MODEL_API_KEY", "BIG_MODEL",
     "MIDDLE_MODEL", "SMALL_MODEL", "HOST", "PORT", "LOG_LEVEL",
     "MAX_TOKENS_LIMIT", "MIN_TOKENS_LIMIT", "REQUEST_TIMEOUT"}

NotLoaded == [state |-> "not_loaded"]

\* sys.exit(1) after "Configuration Error" (config.py:80-82).
Exited == [state |-> "exited"]

\* os.environ.get(name, default)
Get(e, name, default) == IF IsSet(e[name]) THEN Val(e[name]) ELSE default

LoadConfig(e) ==
    IF ~TruthyStr(e["OPENAI_API_KEY"]) THEN Exited
    ELSE
    LET port    == Get(e, "PORT", <<"8", "0", "8", "2">>)
        maxtok  == Get(e, "MAX_TOKENS_LIMIT", <<"4", "0", "9", "6">>)
        mintok  == Get(e, "MIN_TOKENS_LIMIT", <<"1", "0", "0">>)
        timeout == Get(e, "REQUEST_TIMEOUT", <<"9", "0">>)
        base    == Get(e, "OPENAI_BASE_URL", "https://api.openai.com/v1")
        big     == Get(e, "BIG_MODEL", "gpt-4o")
    IN  IF \E n \in {port, maxtok, mintok, timeout} : ~IsNumeral(n)
        THEN Exited
        ELSE [state                |-> "loaded",
              openai_api_key       |-> Val(e["OPENAI_API_KEY"]),
              anthropic_api_key    |-> e["ANTHROPIC_API_KEY"],
              openai_base_url      |-> base,
              small_model_base_url |-> Get(e, "SMALL_MODEL_BASE_URL", base),
              small_model_api_key  |-> Get(e, "SMALL_MODEL_API_KEY",
                                           Val(e["OPENAI_API_KEY"])),
              host                 |-> Get(e, "HOST", "0.0.0.0"),
              port                 |-> ParseInt(port),
              log_level            |-> Get(e, "LOG_LEVEL", "INFO"),
              max_tokens_limit     |-> ParseInt(maxtok),
              min_tokens_limit     |-> ParseInt(mintok),
              request_timeout      |-> ParseInt(timeout),
              big_model            |-> big,
              middle_model         |-> Get(e, "MIDDLE_MODEL", big),
              small_model          |-> Get(e, "SMALL_MODEL", "gpt-4o-mini")]

-----------------------------------------------------------------------------
(* src/api/endpoints.py:21-39: the module-level clients.  objs holds the   *)
(* OpenAIClient instances constructed; the two globals name one by index.  *)

NoClients == [objs |-> <<>>, openai_client |-> 0, small_model_client |-> 0]

\* OpenAIClient(api_key, base_url, timeout)
NewClient(key, url, timeout) ==
    [api_key |-> key, base_url |-> url, timeout |-> timeout]

\* A faulty MakeClients, to show that C9 depends on the condition of line 31:
\* a second client only when both the base URL and the key differ.
MakeClientsWhenBothDiffer(c) ==
    LET main == NewClient(c.openai_api_key, c.openai_base_url, c.request_timeout)
    IN  IF /\ c.small_model_base_url # c.openai_base_url
           /\ c.small_model_api_key # c.openai_api_key
        THEN [objs |-> <<main, NewClient(c.small_model_api_key,
                                         c.small_model_base_url,
                                         c.request_timeout)>>,
              openai_client |-> 1, small_model_client |-> 2]
        ELSE [objs |-> <<main>>, openai_client |-> 1, small_model_client |-> 1]

MakeClients(c) ==
    LET main == NewClient(c.openai_api_key, c.openai_base_url, c.request_timeout)
    IN  IF \/ c.small_model_base_url # c.openai_base_url
           \/ c.small_model_api_key # c.openai_api_key
        THEN [objs |-> <<main, NewClient(c.small_model_api_key,
                                         c.small_model_base_url,
                                         c.request_timeout)>>,
              openai_client |-> 1, small_model_client |-> 2]
        ELSE [objs |-> <<main>>, openai_client |-> 1, small_model_client |-> 1]

-----------------------------------------------------------------------------
(* src/api/endpoints.py:42-59: validate_api_key                            *)

Bearer == <<"B", "e", "a", "r", "e", "r", " ">>

\* str.startswith
StartsWith(s, p) == Len(s) >= Len(p) /\ SubSeq(s, 1, Len(p)) = p

\* str.replace(old, new): every non-overlapping occurrence, leftmost first.
RECURSIVE Replace(_, _, _)
Replace(s, old, new) ==
    IF Len(s) = 0 THEN <<>>
    ELSE IF StartsWith(s, old)
         THEN new \o Replace(SubSeq(s, Len(old) + 1, Len(s)), old, new)
         ELSE <<s[1]>> \o Replace(Tail(s), old, new)

\* endpoints.py:44-50: the key the client is taken to have provided.
ExtractKey(x_api_key, authorization) ==
    IF Truthy(x_api_key) THEN x_api_key
    ELSE IF Truthy(authorization) /\ StartsWith(Val(authorization), Bearer)
         THEN Some(Replace(Val(authorization), Bearer, <<>>))
         ELSE None

\* config.py:63-70
validate_client_api_key(c, client_api_key) ==
    IF ~Truthy(c.anthropic_api_key) THEN TRUE
    ELSE client_api_key = Val(c.anthropic_api_key)

\* endpoints.py:52-59: "admitted" (returns None) or "401" (HTTPException).
ValidateApiKey(c, x_api_key, authorization) ==
    LET client_api_key == ExtractKey(x_api_key, authorization)
    IN  IF ~Truthy(c.anthropic_api_key) THEN "admitted"
        ELSE IF \/ ~Truthy(client_api_key)
                \/ ~validate_client_api_key(c, Val(client_api_key))
             THEN "401"
             ELSE "admitted"

NoAuth == [outcome |-> "none"]

\* One request passes the Depends(validate_api_key) gate.
Authenticate(x_api_key, authorization) ==
    /\ config.state = "loaded"
    /\ auth' = [x_api_key     |-> x_api_key,
                authorization |-> authorization,
                outcome       |-> ValidateApiKey(config, x_api_key, authorization)]
    /\ UNCHANGED <<env, config, clients, task, backend, cancels>>

-----------------------------------------------------------------------------
(* Process start: config.py:73-82 and endpoints.py:21-39.                  *)

Startup ==
    /\ config = NotLoaded
    /\ config' = LoadConfig(env)
    /\ clients' = IF config'.state = "loaded" THEN MakeClients(config')
                  ELSE NoClients
    /\ UNCHANGED <<env, auth, task, backend, cancels>>

-----------------------------------------------------------------------------
(* Collaborators of endpoints.py whose code is in src/core/client.py,      *)
(* src/core/model_manager.py and src/conversion/, modelled at their        *)
(* interface as the design document describes it.                          *)

\* ModelRouter (4.1): an identifier containing "haiku" routes to the small
\* tier, one containing "opus" to the large tier, anything else to middle.
RouteTier(model) ==
    CASE model = "claude-3-5-haiku" -> "small"
      [] model = "claude-opus-4"    -> "large"
      [] OTHER                      -> "middle"

\* model_manager: the configured identifier of the tier.
TierModel(c, tier) ==
    CASE tier = "small" -> c.small_model
      [] tier = "large" -> c.big_model
      [] OTHER          -> c.middle_model

\* ErrorClassifier (4.5): the kind of a backend status.
KindOfStatus(status) ==
    CASE status = 401 -> "authentication"
      [] status = 403 -> "permission"
      [] status = 404 -> "not_found"
      [] status = 429 -> "rate_limit"
      [] status = 503 -> "overloaded"
      [] OTHER        -> "api_error"

\* client.classify_openai_error(text): the text the classifier of client
\* number `by` makes of `text`.
classify_openai_error(by, text) == [tag |-> "classified", by |-> by, of |-> text]

\* What a backend call can come to: a response (well formed or not), an
\* HTTPException carrying the backend's status, or any other exception.
BackendOutcomes ==
    {[kind |-> "ok", status |-> 200], [kind |-> "malformed", status |-> 200],
     [kind |-> "http", status |-> 429],
     [kind |-> "exception", status |-> 0]}

\* The detail text the client attached to its HTTPException.
DetailOf(outcome) == [tag |-> "detail", status |-> outcome.status]

-----------------------------------------------------------------------------
(* Texts and responses                                                     *)

NoText == [tag |-> "none"]

Literal(text) == [tag |-> "literal", text |-> text]

\* str(e) of a caught exception: its unprocessed text.
Str(cause) == [tag |-> "str", of |-> cause]

NoResponse == [status |-> 0, shape |-> "pending", kind |-> "", message |-> NoText]

\* FastAPI's rendering of a raised HTTPException: {"detail": detail}.
HttpError(status, detail) ==
    [status |-> status, shape |-> "detail", kind |-> "", message |-> detail]

\* {"type": "error", "error": {"type": kind, "message": message}}
Envelope(status, kind, message) ==
    [status |-> status, shape |-> "envelope", kind |-> kind, message |-> message]

Body(status, shape) ==
    [status |-> status, shape |-> shape, kind |-> "", message |-> NoText]

NoFailure == [cause |-> "none", status |-> 0]

Failure(cause, status) == [cause |-> cause, status |-> status]

-----------------------------------------------------------------------------
(* Requests                                                                *)

MaxRequests == 2

Ids == 1..MaxRequests

\* A request that convert_claude_to_openai rejects is rejected whatever its
\* model, so one model stands for them.
MessageInputs ==
    [endpoint : {"messages"},
     model    : {"claude-3-5-haiku", "claude-opus-4"},
     stream   : BOOLEAN,
     valid    : {TRUE},
     chars    : {0}]
    \cup
    [endpoint : {"messages"}, model : {"claude-3-5-haiku"},
     stream : BOOLEAN, valid : {FALSE}, chars : {0}]

CountInputs ==
    [endpoint : {"count_tokens"}, model : {"claude-opus-4"},
     stream : {FALSE}, valid : {TRUE}, chars : {9}]

TestInputs ==
    [endpoint : {"test_connection"}, model : {""},
     stream : {FALSE}, valid : {TRUE}, chars : {0}]

Inputs == MessageInputs \cup CountInputs \cup TestInputs

NewTask(in) ==
    [in           |-> in,
     pc           |-> "entry",
     request_id   |-> 0,
     tier         |-> "",
     client       |-> 0,
     disconnected |-> FALSE,
     polled       |-> "no",
     calls        |-> 0,
     failure      |-> NoFailure,
     tokens       |-> 0,
     translator   |-> [client |-> 0, request_id |-> 0],
     response     |-> NoResponse]

Tasks == DOMAIN task

UsedIds == {task[r].request_id : r \in Tasks}

\* The inbound transport learns that the client of request r went away.  Only
\* create_message and its stream translator ever ask the transport, and only
\* at these positions can the answer still be read.
ClientDisconnect(r) ==
    /\ r \in Tasks
    /\ task[r].pc \in {"poll", "streaming"}
    /\ ~task[r].disconnected
    /\ task' = [task EXCEPT ![r].disconnected = TRUE]
    /\ UNCHANGED <<env, config, clients, auth, backend, cancels>>

Finish(t, failure, response) ==
    [t EXCEPT !.pc = "done", !.failure = failure, !.response = response]

\* endpoints.py:129-135: any exception that is no HTTPException.
Unexpected(t, cause) ==
    Finish(t, Failure(cause, 0),
           HttpError(500, classify_openai_error(clients.openai_client, Str(cause))))

\* endpoints.py:78-83
SelectClient(c, openai_model) ==
    IF openai_model = c.small_model THEN clients.small_model_client
    ELSE clients.openai_client

\* endpoints.py:72: str(uuid.uuid4()).  A version 4 UUID is taken never to
\* repeat: the identifier is one no request holds yet (the least, as which
\* one it is makes no difference to any handler).
NewRequestId ==
    CHOOSE id \in Ids \ UsedIds : \A other \in Ids \ UsedIds : id <= other

\* endpoints.py:63-86: a request reaches create_message, which runs from
\* entry to its first await, that of is_disconnected().
Begin(in) ==
    /\ config.state = "loaded"
    /\ in.endpoint = "messages"
    /\ Len(task) < MaxRequests
    /\ LET t     == [NewTask(in) EXCEPT !.request_id = NewRequestId]
           tier  == RouteTier(in.model)
           model == TierModel(config, tier)
       IN  task' = Append(task,
                IF ~in.valid THEN Unexpected(t, "invalid_request")
                ELSE [t EXCEPT !.tier = tier,
                               !.client = SelectClient(config, model),
                               !.pc = "poll"])
    /\ UNCHANGED <<env, config, clients, auth, backend, cancels>>

Call(client, request_id, owner) ==
    [client |-> client, request_id |-> request_id, owner |-> owner]

\* A faulty PollDisconnected, to show that C5 depends on lines 86-87: the
\* answer True is read and not acted on.
PollDisconnectedIgnored(r) ==
    /\ r \in Tasks
    /\ task[r].pc = "poll"
    /\ task[r].disconnected
    /\ backend' = backend \cup {Call(task[r].client, task[r].request_id, r)}
    /\ task' = [task EXCEPT ![r].polled = "disconnected",
                            ![r].calls = @ + 1,
                            ![r].pc = "awaiting"]
    /\ UNCHANGED <<env, config, clients, auth, cancels>>

\* endpoints.py:86-87, 127-128: is_disconnected() answered True.
PollDisconnected(r) ==
    /\ r \in Tasks
    /\ task[r].pc = "poll"
    /\ task[r].disconnected
    /\ task' = [task EXCEPT ![r] =
            Finish([task[r] EXCEPT !.polled = "disconnected"],
                   Failure("client_disconnected", 499),
                   HttpError(499, Literal("Client disconnected")))]
    /\ UNCHANGED <<env, config, clients, auth, backend, cancels>>

\* A faulty TranslatorArgs, to show that C8 depends on line 100: the
\* translator is handed one fixed id.
TranslatorArgsFixedId(client, request_id) == [client |-> client, request_id |-> 1]

\* endpoints.py:94-101: the client and request id handed to the translator.
TranslatorArgs(client, request_id) == [client |-> client, request_id |-> request_id]

\* endpoints.py:86, 89-121: is_disconnected() answered False and the request
\* streams.  No await lies between the poll and the return.
StartStream(r, outcome) ==
    /\ r \in Tasks
    /\ task[r].pc = "poll"
    /\ ~task[r].disconnected
    /\ task[r].in.stream
    /\ outcome.kind \in {"ok", "http", "exception"}
    /\ LET t == [task[r] EXCEPT !.polled = "connected", !.calls = @ + 1]
       IN  /\ backend' = backend \cup {Call(t.client, t.request_id, r)}
           /\ task' = [task EXCEPT ![r] =
                CASE outcome.kind = "ok" ->
                       [t EXCEPT !.pc = "streaming",
                                 !.translator = TranslatorArgs(t.client, t.request_id),
                                 !.response = Body(200, "stream_open")]
                  [] outcome.kind = "http" ->
                       Finish(t, Failure("backend_status", outcome.status),
                              Envelope(outcome.status, "api_error",
                                       classify_openai_error(t.client, DetailOf(outcome))))
                  [] OTHER -> Unexpected(t, "backend_exception")]
    /\ UNCHANGED <<env, config, clients, auth, cancels>>

\* endpoints.py:86, 124: is_disconnected() answered False and the request
\* does not stream: the backend call is issued and awaited.
IssueCompletion(r) ==
    /\ r \in Tasks
    /\ task[r].pc = "poll"
    /\ ~task[r].disconnected
    /\ ~task[r].in.stream
    /\ backend' = backend \cup {Call(task[r].client, task[r].request_id, r)}
    /\ task' = [task EXCEPT ![r].polled = "connected",
                            ![r].calls = @ + 1,
                            ![r].pc = "awaiting"]
    /\ UNCHANGED <<env, config, clients, auth, cancels>>

\* A faulty CompleteCall, to show that C7 depends on line 124 being reached
\* once: a backend status is answered by calling again.
CompleteCallRetry(r, outcome) ==
    /\ r \in Tasks
    /\ task[r].in.endpoint = "messages"
    /\ task[r].pc = "awaiting"
    /\ task' = [task EXCEPT ![r] =
            CASE outcome.kind = "ok" -> Finish(@, NoFailure, Body(200, "message"))
              [] outcome.kind = "malformed" -> Unexpected(@, "malformed_response")
              [] outcome.kind = "http" -> [@ EXCEPT !.calls = @ + 1]
              [] OTHER -> Unexpected(@, "backend_exception")]
    /\ UNCHANGED <<env, config, clients, auth, backend, cancels>>

\* endpoints.py:124-135: the awaited call comes back.
CompleteCall(r, outcome) ==
    /\ r \in Tasks
    /\ task[r].in.endpoint = "messages"
    /\ task[r].pc = "awaiting"
    /\ task' = [task EXCEPT ![r] =
            CASE outcome.kind = "ok" -> Finish(@, NoFailure, Body(200, "message"))
              [] outcome.kind = "malformed" -> Unexpected(@, "malformed_response")
              [] outcome.kind = "http" ->
                   Finish(@, Failure("backend_status", outcome.status),
                          HttpError(outcome.status, DetailOf(outcome)))
              [] OTHER -> Unexpected(@, "backend_exception")]
    /\ UNCHANGED <<env, config, clients, auth, backend, cancels>>

\* The stream translator (4.4) runs to its terminal event: the end of the
\* message, or one error event of the classified kind.
StreamFinish(r, outcome) ==
    /\ r \in Tasks
    /\ task[r].pc = "streaming"
    /\ task' = [task EXCEPT ![r] =
            CASE outcome.kind = "ok" -> Finish(@, NoFailure, Body(200, "stream_complete"))
              [] outcome.kind = "http" ->
                   Finish(@, Failure("backend_status", outcome.status),
                          Envelope(200, KindOfStatus(outcome.status),
                                   classify_openai_error(@.translator.client,
                                                         DetailOf(outcome))))
              [] OTHER ->
                   Finish(@, Failure("stream_error", 0),
                          Envelope(200, "api_error",
                                   classify_openai_error(@.translator.client,
                                                         Str("stream_error"))))]
    /\ UNCHANGED <<env, config, clients, auth, backend, cancels>>

\* The stream translator (4.4) sees the disconnection and aborts the backend
\* call it was given: client.cancel_request(request_id).
StreamCancel(r) ==
    /\ r \in Tasks
    /\ task[r].pc = "streaming"
    /\ task[r].disconnected
    /\ cancels' = cancels \cup {[by         |-> r,
                                 client     |-> task[r].translator.client,
                                 request_id |-> task[r].translator.request_id]}
    /\ task' = [task EXCEPT ![r] =
            Finish(@, Failure("cancelled", 0), Body(200, "stream_cancelled"))]
    /\ UNCHANGED <<env, config, clients, auth, backend>>

\* endpoints.py:167: max(1, total_chars // 4)
EstimateTokens(total_chars) ==
    IF total_chars \div 4 > 1 THEN total_chars \div 4 ELSE 1

\* endpoints.py:138-169: count_tokens holds no await and runs to its return.
\* The except clause of 171-173 is not taken: len() of validated text does
\* not raise.
CountTokens(in) ==
    /\ config.state = "loaded"
    /\ in.endpoint = "count_tokens"
    /\ Len(task) < MaxRequests
    /\ task' = Append(task,
            Finish([NewTask(in) EXCEPT !.tokens = EstimateTokens(in.chars)],
                   NoFailure, Body(200, "tokens")))
    /\ UNCHANGED <<env, config, clients, auth, backend, cancels>>

\* endpoints.py:188-199: test_connection issues its call on openai_client,
\* with no request id, and awaits it.
TestIssue(in) ==
    /\ config.state = "loaded"
    /\ in.endpoint = "test_connection"
    /\ Len(task) < MaxRequests
    /\ backend' = backend \cup {Call(clients.openai_client, 0, Len(task) + 1)}
    /\ task' = Append(task, [NewTask(in) EXCEPT !.client = clients.openai_client,
                                                !.calls = @ + 1,
                                                !.pc = "awaiting"])
    /\ UNCHANGED <<env, config, clients, auth, cancels>>

\* endpoints.py:201-224
TestFailed(cause) ==
    [status |-> 503, shape |-> "test_failed", kind |-> "API Error",
     message |-> Str(cause)]

TestComplete(r, outcome) ==
    /\ r \in Tasks
    /\ task[r].in.endpoint = "test_connection"
    /\ task[r].pc = "awaiting"
    /\ task' = [task EXCEPT ![r] =
            CASE outcome.kind \in {"ok", "malformed"} ->
                   Finish(@, NoFailure, Body(200, "test_ok"))
              [] outcome.kind = "http" ->
                   Finish(@, Failure("backend_status", outcome.status),
                          TestFailed("backend_status"))
              [] OTHER ->
                   Finish(@, Failure("backend_exception", 0),
                          TestFailed("backend_exception"))]
    /\ UNCHANGED <<env, config, clients, auth, backend, cancels>>

-----------------------------------------------------------------------------
(* Environments drawn                                                      *)

NoTasks == <<>>

\* Every variable of the --help text unset or set to a value other than its
\* default; the int() variables also to text that is no numeral.
EnvAll ==
    [OPENAI_API_KEY       : {None, Some("sk-main")},
     ANTHROPIC_API_KEY    : {None, Some(<<"a", "b">>)},
     OPENAI_BASE_URL      : {None, Some("https://main.example/v1")},
     SMALL_MODEL_BASE_URL : {None, Some("https://small.example/v1")},
     SMALL_MODEL_API_KEY  : {None, Some("sk-small")},
     BIG_MODEL            : {None, Some("gpt-5")},
     MIDDLE_MODEL         : {None, Some("gpt-4.1")},
     SMALL_MODEL          : {None, Some("gpt-4o")},
     HOST                 : {None, Some("127.0.0.1")},
     PORT                 : {None, Some(<<"9", "0">>), Some(<<"h", "t", "t", "p">>)},
     LOG_LEVEL            : {None, Some("DEBUG")},
     MAX_TOKENS_LIMIT     : {None, Some(<<"8", "1", "9", "2">>)},
     MIN_TOKENS_LIMIT     : {None, Some(<<"1">>)},
     REQUEST_TIMEOUT      : {None, Some(<<"3", "0">>)}]

UnsetEnv == [n \in EnvNames |-> None]

\* Environments that differ only in the client key expected.
EnvAuth ==
    {[UnsetEnv EXCEPT !["OPENAI_API_KEY"] = Some("sk-main"),
                      !["ANTHROPIC_API_KEY"] = k] :
        k \in {None, Some(<<>>), Some(<<"a">>), Some(<<"a", "b">>)}}

XApiKeyHeaders ==
    {None, Some(<<>>), Some(<<"a">>), Some(<<"b">>), Some(<<"a", "b">>)}

AuthorizationHeaders ==
    {None, Some(<<>>), Some(<<"a", "b">>), Some(Bearer),
     Some(Bearer \o <<"a">>), Some(Bearer \o <<"a", "b">>),
     Some(<<"b">> \o Bearer \o <<"a", "b">>),
     Some(Bearer \o Bearer \o <<"a", "b">>),
     Some(Bearer \o <<"a">> \o Bearer \o <<"b">>)}

-----------------------------------------------------------------------------
(* Specification of process start: any environment, then Startup.          *)

InitConfig ==
    /\ env \in EnvAll
    /\ config = NotLoaded
    /\ clients = NoClients
    /\ auth = NoAuth
    /\ task = NoTasks
    /\ backend = {}
    /\ cancels = {}

NextConfig == Startup

SpecConfig == InitConfig /\ [][NextConfig]_vars

(* Specification of the key check: a loaded configuration, then requests.  *)

InitAuth ==
    /\ env \in EnvAuth
    /\ config = LoadConfig(env)
    /\ clients = MakeClients(config)
    /\ auth = NoAuth
    /\ task = NoTasks
    /\ backend = {}
    /\ cancels = {}

NextAuth ==
    \E x \in XApiKeyHeaders, a \in AuthorizationHeaders : Authenticate(x, a)

SpecAuth == InitAuth /\ [][NextAuth]_vars

(* Specification of the serving process: configuration loaded, clients     *)
(* constructed, then requests in any interleaving.                         *)

\* The environments served under: nothing set but the key; the small tier
\* given its own base URL; given its own key; given its own base URL and the
\* model identifier that the other two tiers default to.
ServeEnv(url, key, model) ==
    [UnsetEnv EXCEPT !["OPENAI_API_KEY"] = Some("sk-main"),
                     !["SMALL_MODEL_BASE_URL"] = url,
                     !["SMALL_MODEL_API_KEY"] = key,
                     !["SMALL_MODEL"] = model]

EnvServe ==
    {ServeEnv(None, None, None),
     ServeEnv(Some("https://small.example/v1"), None, None),
     ServeEnv(None, Some("sk-small"), None),
     ServeEnv(Some("https://small.example/v1"), None, Some("gpt-4o"))}

Init ==
    /\ env \in EnvServe
    /\ config = LoadConfig(env)
    /\ clients = MakeClients(config)
    /\ auth = NoAuth
    /\ task = NoTasks
    /\ backend = {}
    /\ cancels = {}

Next ==
    \/ \E in \in Inputs :
        \/ Begin(in)
        \/ CountTokens(in)
        \/ TestIssue(in)
    \/ \E r \in Ids :
        \/ ClientDisconnect(r)
        \/ PollDisconnected(r)
        \/ IssueCompletion(r)
        \/ StreamCancel(r)
        \/ \E outcome \in BackendOutcomes :
            \/ StartStream(r, outcome)
            \/ CompleteCall(r, outcome)
            \/ StreamFinish(r, outcome)
            \/ TestComplete(r, outcome)

Spec == Init /\ [][Next]_vars

-----------------------------------------------------------------------------
(* src/main.py:26-39: the defaults the --help text documents, for a loaded *)
(* configuration c.                                                        *)

HelpDefault(c) ==
    [openai_base_url      |-> "https://api.openai.com/v1",
     small_model_base_url |-> c.openai_base_url,
     small_model_api_key  |-> c.openai_api_key,
     big_model            |-> "gpt-4o",
     middle_model         |-> "gpt-4o",
     small_model          |-> "gpt-4o-mini",
     host                 |-> "0.0.0.0",
     port                 |-> 8082,
     log_level            |-> "WARNING",
     max_tokens_limit     |-> 4096,
     min_tokens_limit     |-> 100,
     request_timeout      |-> 90]

\* The Config field each documented variable is loaded into.
FieldOf ==
    [OPENAI_BASE_URL      |-> "openai_base_url",
     SMALL_MODEL_BASE_URL |-> "small_model_base_url",
     SMALL_MODEL_API_KEY  |-> "small_model_api_key",
     BIG_MODEL            |-> "big_model",
     MIDDLE_MODEL         |-> "middle_model",
     SMALL_MODEL          |-> "small_model",
     HOST                 |-> "host",
     PORT                 |-> "port",
     LOG_LEVEL            |-> "log_level",
     MAX_TOKENS_LIMIT     |-> "max_tokens_limit",
     MIN_TOKENS_LIMIT     |-> "min_tokens_limit",
     REQUEST_TIMEOUT      |-> "request_timeout"]

-----------------------------------------------------------------------------
(* The claims                                                              *)

Done(r) == r \in Tasks /\ task[r].pc = "done"

IsMessage(r) == r \in Tasks /\ task[r].in.endpoint = "messages"

\* C1: every failure of create_message, streaming or not, reaches the caller
\* as the envelope {type: "error", error: {type, message}}, and one failure
\* gives a body of one shape on both paths.  (A disconnected or cancelled
\* client is owed no response and is not counted as a failure here.)
C1_ErrorEnvelope ==
    LET failed(r) == /\ Done(r) /\ IsMessage(r)
                     /\ task[r].failure.cause \in
                            {"invalid_request", "backend_status",
                             "backend_exception", "malformed_response",
                             "stream_error"}
    IN  /\ \A r \in Tasks : failed(r) => task[r].response.shape = "envelope"
        /\ \A r1, r2 \in Tasks :
             /\ failed(r1) /\ failed(r2)
             /\ task[r1].in.stream /\ ~task[r2].in.stream
             /\ task[r1].failure = task[r2].failure
             => task[r1].response.shape = task[r2].response.shape

\* C2: when the backend call of create_message fails with a status code, the
\* envelope returned carries the kind classified from that status (429 gives
\* rate_limit).
C2_StatusKind ==
    \A r \in Tasks :
        /\ Done(r) /\ IsMessage(r)
        /\ task[r].failure.cause = "backend_status"
        => /\ task[r].response.shape = "envelope"
           /\ task[r].response.kind = KindOfStatus(task[r].failure.status)

\* C3: no response of any endpoint carries the unprocessed text of a caught
\* exception.
C3_NoRawErrorText ==
    \A r \in Tasks : Done(r) => task[r].response.message.tag # "str"

\* C4: with ANTHROPIC_API_KEY configured, a request is admitted exactly when
\* the key it provides (x-api-key, or when that is absent or empty the
\* Authorization value after its leading "Bearer ") equals the configured
\* key, and is answered 401 otherwise; with no key configured every request
\* is admitted.
C4_ExactKey ==
    auth.outcome # "none" =>
        LET a == auth.authorization
            provided ==
                IF Truthy(auth.x_api_key) THEN auth.x_api_key
                ELSE IF IsSet(a) /\ StartsWith(Val(a), Bearer)
                     THEN Some(SubSeq(Val(a), Len(Bearer) + 1, Len(Val(a))))
                     ELSE None
        IN  IF Truthy(config.anthropic_api_key)
            THEN /\ auth.outcome \in {"admitted", "401"}
                 /\ auth.outcome = "admitted"
                        <=> provided = Some(Val(config.anthropic_api_key))
            ELSE auth.outcome = "admitted"

\* C5: when is_disconnected() reports the client gone before the backend call
\* of create_message, no backend call is issued for the request and it ends
\* with status 499; and a disconnection that precedes the call of a request
\* that does not stream is always so reported.
C5_DisconnectAborts ==
    \A r \in Tasks :
        /\ task[r].polled = "disconnected" =>
              /\ task[r].pc = "done"
              /\ task[r].calls = 0
              /\ \A b \in backend : b.owner # r
              /\ task[r].response.status = 499
              /\ task[r].failure.cause = "client_disconnected"
        /\ (IsMessage(r) /\ ~task[r].in.stream /\ task[r].disconnected
                /\ task[r].pc # "poll")
              => task[r].polled = "disconnected"

C5_Witness ==
    \E r \in Tasks :
        /\ Done(r) /\ task[r].polled = "disconnected"
        /\ task[r].response.status = 499

\* C6: every optional variable of the --help text, when unset, is loaded as
\* the default the help text documents, whatever the other variables are.
C6_DocumentedDefaults ==
    config.state = "loaded" =>
        \A n \in DOMAIN FieldOf :
            ~IsSet(env[n]) => config[FieldOf[n]] = HelpDefault(config)[FieldOf[n]]

\* C7: create_message issues at most one backend call per request, whatever
\* the outcome, and none when the translation of the request fails.
C7_NoRetry ==
    \A r \in Tasks :
        /\ task[r].calls <= 1
        /\ Cardinality({b \in backend : b.owner = r}) <= 1
        /\ task[r].failure.cause = "invalid_request" => task[r].calls = 0

C7_Witness ==
    /\ \E r \in Tasks :
         /\ Done(r) /\ IsMessage(r) /\ task[r].calls = 1
         /\ task[r].failure.cause = "backend_status"
    /\ \E r \in Tasks :
         /\ Done(r) /\ task[r].failure.cause = "invalid_request"

\* C8: request ids are unique per request, the backend call and the stream
\* translator of a request carry that request's id, and so a cancellation
\* names no backend call but one of the request that cancels.
C8_OwnCallOnly ==
    /\ \A r1, r2 \in Tasks :
         (r1 # r2 /\ IsMessage(r1) /\ IsMessage(r2))
            => task[r1].request_id # task[r2].request_id
    /\ \A b \in backend :
         IsMessage(b.owner) =>
            /\ b.request_id = task[b.owner].request_id
            /\ b.client = task[b.owner].client
    /\ \A r \in Tasks :
         (IsMessage(r) /\ task[r].in.stream /\ task[r].response.status = 200)
            => /\ task[r].translator.request_id = task[r].request_id
               /\ task[r].translator.client = task[r].client
    /\ \A c \in cancels : \A b \in backend :
         (b.client = c.client /\ b.request_id = c.request_id) => b.owner = c.by

C8_Witness ==
    \E c \in cancels : \E r \in Tasks :
        /\ r # c.by
        /\ task[r].pc = "streaming"
        /\ task[r].client = c.client
        /\ \E b \in backend : b.owner = c.by /\ b.request_id = c.request_id

\* C9: the configuration and the two client bindings are never changed by a
\* request, and small_model_client is the instance openai_client exactly
\* when the small tier's base URL and key both equal the main ones.
C9_SharedReadOnly ==
    /\ [](/\ config = LoadConfig(env)
          /\ Len(clients.objs) \in {1, 2}
          /\ clients.openai_client = 1
          /\ clients.small_model_client \in DOMAIN clients.objs
          /\ clients.objs[clients.openai_client] =
                NewClient(config.openai_api_key, config.openai_base_url,
                          config.request_timeout)
          /\ clients.objs[clients.small_model_client] =
                NewClient(config.small_model_api_key, config.small_model_base_url,
                          config.request_timeout)
          /\ clients.small_model_client = clients.openai_client
                <=> /\ config.small_model_base_url = config.openai_base_url
                    /\ config.small_model_api_key = config.openai_api_key)
    /\ [][env' = env /\ config' = config /\ clients' = clients]_vars

C9_Witness ==
    /\ Len(task) = MaxRequests
    /\ \A r \in Tasks : Done(r)
    /\ \E r \in Tasks : IsMessage(r) /\ task[r].calls = 1
    /\ clients.small_model_client # clients.openai_client

\* C10: create_message sends a request through the small-model client exactly
\* when the request was routed to the small tier, through the main client
\* otherwise, and the errors of a request are classified by the client that
\* served it.
C10_ClientFollowsTier ==
    \A r \in Tasks :
        (IsMessage(r) /\ task[r].calls > 0) =>
            /\ task[r].client = IF task[r].tier = "small"
                                THEN clients.small_model_client
                                ELSE clients.openai_client
            /\ \A b \in backend : b.owner = r => b.client = task[r].client
            /\ task[r].response.message.tag = "classified"
                  => task[r].response.message.by = task[r].client

=============================================================================
